---- MODULE Spec2Model ----
(***************************************************************************)
(* A model of rust-distributed-file-system: the disk-backed key/blob       *)
(* store (src/src/store), the TCP transport (src/src/transport) and the    *)
(* file server that owns both (src/src/server).                            *)
(*                                                                         *)
(* Granularity.  A string or a byte vector is a sequence of small          *)
(* integers ("words"); a bincode length prefix or enum tag is one word.    *)
(* A filesystem path is a sequence of segments (the pieces between "/").   *)
(***************************************************************************)
EXTENDS Integers, Sequences, FiniteSets, TLC

(***************************************************************************)
(* Bounds of the model.                                                    *)
(***************************************************************************)
\* longest blob handed to the store in the store-only specification
MaxBlobLen == 2

\* the blob of length n that starts with byte b and alternates 1, 2
Alt(b, n) == [i \in 1..n |-> IF i % 2 = 1 THEN b ELSE 3 - b]

Blobs == {Alt(b, n) : b \in {1, 2}, n \in 0..MaxBlobLen}

\* keys are non-empty strings; <<1>> and <<1, 2>> share their first character
Keys == {<<1>>, <<1, 2>>, <<2>>}

(***************************************************************************)
(* store/hashlib.rs: the key-to-path transforms.                           *)
(***************************************************************************)
\* length of a hex SHA-1 digest (hasher.result_str())
DigestLen == 40

CAS_BLOCK_SIZE == 5

RECURSIVE SumSeq(_)
SumSeq(s) == IF s = <<>> THEN 0 ELSE Head(s) + SumSeq(Tail(s))

\* Stand-in for hex(SHA-1(s)): a DigestLen-digit string, distinct for
\* distinct keys of Keys (SHA-1 itself is not computed).
Sha1Hex(s) == [i \in 1..DigestLen |-> (SumSeq(s) * 7 + Len(s) * 3 + i) % 16]

\* filename_transform: the digest as one file name
filename_transform(s) == <<Sha1Hex(s)>>

\* cas_path_transform: the digest cut into len/CAS_BLOCK_SIZE blocks joined by "/"
cas_path_transform(s) ==
    LET hash_str == Sha1Hex(s)
        slice_len == Len(hash_str) \div CAS_BLOCK_SIZE
    IN  [i \in 1..slice_len |->
            SubSeq(hash_str, (i - 1) * CAS_BLOCK_SIZE + 1,
                             (i - 1) * CAS_BLOCK_SIZE + CAS_BLOCK_SIZE)]

\* the tests' transform |s| s
identity_transform(s) == <<s>>

\* a caller-supplied PathTransformFn under which distinct keys collide
first_char_transform(s) == <<SubSeq(s, 1, 1)>>

TransformNames == {"identity", "filename_transform", "cas_path_transform", "first_char"}

\* the transforms tabulated over Keys (each table is computed once)
TransformTable ==
    [name \in TransformNames |->
        [key \in Keys |->
            CASE name = "identity" -> identity_transform(key)
              [] name = "filename_transform" -> filename_transform(key)
              [] name = "cas_path_transform" -> cas_path_transform(key)
              [] OTHER -> first_char_transform(key)]]

ApplyTransform(name, key) ==
    IF key \in Keys THEN TransformTable[name][key]
    ELSE CASE name = "identity" -> identity_transform(key)
           [] name = "filename_transform" -> filename_transform(key)
           [] name = "cas_path_transform" -> cas_path_transform(key)
           [] OTHER -> first_char_transform(key)

(***************************************************************************)
(* The filesystem below a store: the directories that exist and the        *)
(* regular files with their content.                                       *)
(***************************************************************************)
EmptyFs == [dirs |-> {}, files |-> <<>>]

Prefixes(path) == {SubSeq(path, 1, n) : n \in 1..Len(path)}

IsPrefix(p, q) == Len(p) <= Len(q) /\ SubSeq(q, 1, Len(p)) = p

Parent(path) == SubSeq(path, 1, Len(path) - 1)

\* fs::create_dir_all
create_dir_all(fs, dir) == [fs EXCEPT !.dirs = @ \cup Prefixes(dir)]

\* fs::File::create succeeds when the parent directory exists and the path
\* is not itself a directory
CanCreate(fs, path) == Parent(path) \in fs.dirs /\ path \notin fs.dirs

\* (mutant) a write that opens the file without truncating it
CreatedContentNoTruncate(old, bytes) ==
    bytes \o SubSeq(old, Len(bytes) + 1, Len(old))

\* (mutant) a copy that stops one byte short
CreatedContentShortCopy(old, bytes) == SubSeq(bytes, 1, Len(bytes) - 1)

\* content of the file after File::create (truncate) and io::copy(r, w)
CreatedContent(old, bytes) == bytes

OldContent(fs, path) == IF path \in DOMAIN fs.files THEN fs.files[path] ELSE <<>>

PutFile(fs, path, bytes) ==
    [fs EXCEPT !.files =
        [p \in DOMAIN fs.files \cup {path} |->
            IF p = path THEN CreatedContent(OldContent(fs, path), bytes)
            ELSE fs.files[p]]]

\* (mutant) a removal that takes the sibling files with it
RemoveFileAndSiblings(fs, path) ==
    [fs EXCEPT !.files =
        [p \in {q \in DOMAIN fs.files : Parent(q) # Parent(path)} |-> fs.files[p]]]

\* fs::remove_file
RemoveFile(fs, path) ==
    [fs EXCEPT !.files = [p \in DOMAIN fs.files \ {path} |-> fs.files[p]]]

\* fs::remove_dir_all
remove_dir_all(fs, dir) ==
    [dirs |-> {d \in fs.dirs : ~IsPrefix(dir, d)},
     files |-> [p \in {q \in DOMAIN fs.files : ~IsPrefix(dir, q)} |-> fs.files[p]]]

(***************************************************************************)
(* store/mod.rs: Store.  Every operation returns the filesystem it leaves  *)
(* and its result: Ok with a value, an ErrorKind, or a panic (an unwrap    *)
(* of an Err inside the operation).                                        *)
(***************************************************************************)
Ok(v) == [ok |-> TRUE, err |-> "", val |-> v]
Err(kind) == [ok |-> FALSE, err |-> kind, val |-> <<>>]

\* root_dir is a path: the segments of the configured directory name
StoreOpts(root, transform) == [root_dir |-> root, filename_transform |-> transform]

fullpath(o, key) == o.root_dir \o ApplyTransform(o.filename_transform, key)

\* Store::read_stream followed by read_to_end
read(o, fs, key) ==
    LET filename == fullpath(o, key)
    IN  IF filename \in DOMAIN fs.files THEN Ok(fs.files[filename]) ELSE Err("NotFound")

\* (mutant) a write that creates no file for a reader that yields nothing
write_stream_skip_empty(o, fs, key, bytes) ==
    LET made == create_dir_all(fs, o.root_dir)
        filename == o.root_dir \o ApplyTransform(o.filename_transform, key)
    IN  IF bytes = <<>> THEN [fs |-> made, res |-> Ok(<<>>)]
        ELSE IF CanCreate(made, filename)
        THEN [fs |-> PutFile(made, filename, bytes), res |-> Ok(<<>>)]
        ELSE [fs |-> made, res |-> Err("panic")]

\* Store::write / write_stream
write_stream(o, fs, key, bytes) ==
    LET made == create_dir_all(fs, o.root_dir)
        filename == fullpath(o, key)
    IN  IF CanCreate(made, filename)
        THEN [fs |-> PutFile(made, filename, bytes), res |-> Ok(<<>>)]
        ELSE [fs |-> made, res |-> Err("panic")]

\* (mutant) a delete that reports success for a missing file
delete_missing_ok(o, fs, key) ==
    LET filename == o.root_dir \o ApplyTransform(o.filename_transform, key)
    IN  [fs |-> [fs EXCEPT !.files = [p \in DOMAIN fs.files \ {filename} |-> fs.files[p]]],
         res |-> Ok(<<>>)]

\* Store::delete
delete(o, fs, key) ==
    LET filename == fullpath(o, key)
    IN  IF filename \notin DOMAIN fs.files /\ filename \notin fs.dirs
        THEN [fs |-> fs, res |-> Err("NotFound")]
        ELSE IF filename \in DOMAIN fs.files
             THEN [fs |-> RemoveFile(fs, filename), res |-> Ok(<<>>)]
             ELSE [fs |-> fs, res |-> Err("IsADirectory")]

\* (mutant) a clear that reports success when the root directory is absent
clear_absent_ok(o, fs) ==
    [fs |-> remove_dir_all(fs, o.root_dir), res |-> Ok(<<>>)]

\* Store::clear
clear(o, fs) ==
    IF o.root_dir \in fs.dirs
    THEN [fs |-> remove_dir_all(fs, o.root_dir), res |-> Ok(<<>>)]
    ELSE [fs |-> fs, res |-> Err("NotFound")]

(***************************************************************************)
(* server/mod.rs: the wire form of Payload and MessageData (bincode: a     *)
(* string or a Vec<u8> is its length followed by its content, an enum is   *)
(* its variant index).                                                     *)
(***************************************************************************)
\* MessageType::Store, the only variant
MessageType_Store == 0

MessageTypes == {MessageType_Store}

\* MessageData::to_buffer
MessageData_to_buffer(key, data) ==
    <<Len(key)>> \o key \o <<Len(data)>> \o data

\* Payload::to_buffer
Payload_to_buffer(from, msg_type, msg) ==
    <<Len(from)>> \o from \o <<msg_type>> \o <<Len(msg)>> \o msg

\* bincode reading a length-prefixed sequence at position pos of buf
TakeVec(buf, pos) ==
    IF pos > Len(buf) \/ pos + buf[pos] > Len(buf)
    THEN [ok |-> FALSE, val |-> <<>>, next |-> pos]
    ELSE [ok |-> TRUE, val |-> SubSeq(buf, pos + 1, pos + buf[pos]),
          next |-> pos + buf[pos] + 1]

BadBuffer == [ok |-> FALSE]

\* bincode::deserialize::<Payload>: bytes after the value are ignored
Payload_deserialize(buf) ==
    LET from == TakeVec(buf, 1)
        msg == TakeVec(buf, from.next + 1)
    IN  IF from.ok /\ from.next <= Len(buf) /\ buf[from.next] \in MessageTypes /\ msg.ok
        THEN [ok |-> TRUE, from |-> from.val, msg_type |-> buf[from.next], msg |-> msg.val]
        ELSE BadBuffer

\* bincode::deserialize::<MessageData>
MessageData_deserialize(buf) ==
    LET key == TakeVec(buf, 1)
        data == TakeVec(buf, key.next)
    IN  IF key.ok /\ data.ok
        THEN [ok |-> TRUE, key |-> key.val, data |-> data.val]
        ELSE BadBuffer

(***************************************************************************)
(* lib.rs: read_all_from_stream.  A read returns at most as many bytes as  *)
(* the buffer is long, at most as many as the stream holds, and at most    *)
(* as many as are ready; it returns 0 bytes at EOF or for an empty buffer. *)
(***************************************************************************)
\* the 1024-byte buffer of read_all_from_stream (lib.rs:6), scaled
ReadBufLen == 8

\* the 1024-byte buffer of store_data (server/mod.rs:137), scaled
StoreDataBufLen == 8

Min(a, b) == IF a < b THEN a ELSE b

ReadCount(avail, buflen, ready) == Min(Len(avail), Min(buflen, ready))

\* length of buf as a read buffer after buf.clear()
BufLenAfterClear(buflen) == 0

\* the loop of read_all_from_stream: what it returns and what it leaves
RECURSIVE read_loop(_, _, _, _)
read_loop(avail, buflen, ready, result) ==
    LET n == ReadCount(avail, buflen, ready)
        rest == SubSeq(avail, n + 1, Len(avail))
    IN  IF n = 0
        THEN [result |-> result, rest |-> avail]
        ELSE read_loop(rest, BufLenAfterClear(buflen), Len(rest),
                       result \o SubSeq(avail, 1, n))

read_all_from_stream(avail, ready) == read_loop(avail, ReadBufLen, ready, <<>>)

(***************************************************************************)
(* main.rs: three nodes; B and C bootstrap to A.                           *)
(***************************************************************************)
Nodes == {"A", "B", "C"}

ListenAddr(n) == CASE n = "A" -> 3000 [] n = "B" -> 4000 [] OTHER -> 5000

\* (mutant) a wiring in which C bootstraps to B instead of A
BootstrapChain(n) == CASE n = "A" -> {} [] n = "B" -> {"A"} [] OTHER -> {"B"}

\* the bootstrap lists main hands to make_server
Bootstrap(n) == IF n = "A" THEN {} ELSE {"A"}

\* one connection per bootstrap dial, named by the node that dials
Conns == {n \in Nodes : Bootstrap(n) # {}}

Target(c) == CHOOSE t \in Bootstrap(c) : TRUE

\* the two ends of a connection: "out" at the dialer, "in" at the acceptor
EPs == Conns \X {"out", "in"}

Owner(e) == IF e[2] = "out" THEN e[1] ELSE Target(e[1])

Other(e) == <<e[1], IF e[2] = "out" THEN "in" ELSE "out">>

EndpointsAt(n) == {e \in EPs : Owner(e) = n}

\* the port the dialer's socket is bound to (chosen by the OS)
EphemeralAddr(c) == ListenAddr(c) + 50000

\* TcpPeer::addr: conn.peer_addr()
RemoteAddr(e) == IF e[2] = "out" THEN ListenAddr(Target(e[1])) ELSE EphemeralAddr(e[1])

\* make_server: root_dir storage/<listen_addr>, filename_transform
NodeStoreOpts(n) == StoreOpts(<<"storage", ListenAddr(n)>>, "filename_transform")

\* keys and reader contents handed to store_data
NetKeys == {<<1>>}

NetBlobs == {Alt(1, 1), Alt(2, StoreDataBufLen + 1)}

\* the callers of the end-to-end scenarios: B publishes (main.rs:60), B is
\* the process that is killed and A, the survivor, publishes then; A is the
\* node that is shut down
Publishers == {"B"}

Survivors == {"A"}

Killable == {"B"}

Stoppable == {"A"}

\* calls of store_data, of shutdown and killed processes in one behaviour
MaxPublish == 2

MaxShutdown == 1

MaxKill == 1

\* messages the readers pile up in msg_chan before the model makes them wait
MaxQueue == 2

(***************************************************************************)
(* State of the store-only specification: one Store, its options, and the  *)
(* last operation called on it with the filesystem it found.               *)
(***************************************************************************)
VARIABLES opts, store, last

storeVars == <<opts, store, last>>

(***************************************************************************)
(* State of the network specification.                                     *)
(*   alive[n]         the process of node n runs                           *)
(*   run_pc[n]        where FileServer::start / run stands                 *)
(*   shutdown_chan[n] the values waiting in shutdown_chan                  *)
(*   hpc[e]           where the thread running handle_conn for e stands    *)
(*   peers[n]         TcpTransport::peers, the endpoints registered        *)
(*   mirror[n]        FileServer::peers, the endpoints the callback added  *)
(*   wire[e]          the bytes sent to e that e has not read yet          *)
(*   queue[n]         msg_chan, the messages waiting for consume()         *)
(*   pub[n]           the store_data call in progress at n                 *)
(*   disk[n]          the filesystem of n's store                          *)
(* and the history the properties speak about:                             *)
(*   published        the store_data calls made                            *)
(*   delivered        the Store messages handle_message wrote              *)
(*   sent[e]          every byte ever sent to e                            *)
(*   handled[e]       the payloads from e that consume() returned          *)
(*   calledLooping[n] shutdown() was called while run() was looping        *)
(*   eofSeen[e]       the reader of e has read EOF                         *)
(*   nShutdown, nKill the calls of shutdown and the kills so far           *)
(***************************************************************************)
VARIABLES alive, run_pc, shutdown_chan, hpc, peers, mirror, wire, queue, pub, disk,
          published, delivered, sent, handled, calledLooping, eofSeen, nShutdown, nKill

netVars == <<alive, run_pc, shutdown_chan, hpc, peers, mirror, wire, queue, pub, disk,
             published, delivered, sent, handled, calledLooping, eofSeen, nShutdown, nKill>>

(***************************************************************************)
(* State of a call of try_dial: where it stands (pc), its max_attemps,     *)
(* its locals attempts and backoff, and the history of the call: the       *)
(* outcome of each dial made (dials), the sleeps taken (slept), the result *)
(***************************************************************************)
VARIABLE td

\* for each connection end, why handle_conn turned the peer away: "no" (it did
\* not), "handshake" (opts.shakehands returned Err) or "callback" (the
\* on_peer callback returned false)
VARIABLE refused

\* a call of read_all_from_stream on a stream of its own: where it stands
\* (pc), what the stream delivers before EOF (content), how many bytes the
\* first read found ready (ready), and what the call returned (res)
VARIABLE rd

\* two threads of one node inside store_data / broadcast, and the one
\* connection of the node's mirror: where each thread stands (pc), the
\* payload_buffer it sends (buf), how much of it write_all has written
\* (written), who holds the mutex of FileServer::peers (peersLock) and the
\* lock of the peer (peerLock), and the bytes put on the connection, each
\* with the thread that wrote it (conn)
VARIABLE bc

vars == <<opts, store, last, alive, run_pc, shutdown_chan, hpc, peers, mirror, wire,
          queue, pub, disk, published, delivered, sent, handled, calledLooping,
          eofSeen, nShutdown, nKill, td, refused, rd, bc>>

NoTryDial == [pc |-> "idle", max_attemps |-> 0, attempts |-> 0, backoff |-> 0,
              dials |-> <<>>, slept |-> <<>>, res |-> Ok(<<>>)]

Idle == [pc |-> "idle", buf |-> <<>>, todo |-> {}]

Threads == {"t1", "t2"}

NoBroadcast == [pc |-> [t \in Threads |-> "idle"], buf |-> [t \in Threads |-> <<>>],
                written |-> [t \in Threads |-> 0], peersLock |-> "free",
                peerLock |-> "free", conn |-> <<>>]

NoRead == [pc |-> "idle", content |-> <<>>, ready |-> 0, res |-> Ok(<<>>)]

\* the nodes as make_server leaves them: nothing started, nothing connected
NetInit ==
    /\ alive = [n \in Nodes |-> TRUE]
    /\ run_pc = [n \in Nodes |-> "new"]
    /\ shutdown_chan = [n \in Nodes |-> 0]
    /\ hpc = [e \in EPs |-> "none"]
    /\ peers = [n \in Nodes |-> {}]
    /\ mirror = [n \in Nodes |-> {}]
    /\ wire = [e \in EPs |-> <<>>]
    /\ queue = [n \in Nodes |-> <<>>]
    /\ pub = [n \in Nodes |-> Idle]
    /\ disk = [n \in Nodes |-> EmptyFs]
    /\ published = {}
    /\ delivered = {}
    /\ sent = [e \in EPs |-> <<>>]
    /\ handled = [e \in EPs |-> <<>>]
    /\ calledLooping = [n \in Nodes |-> FALSE]
    /\ eofSeen = [e \in EPs |-> FALSE]
    /\ nShutdown = 0
    /\ nKill = 0
    /\ td = NoTryDial
    /\ refused = [e \in EPs |-> "no"]
    /\ rd = NoRead
    /\ bc = NoBroadcast

NoOp == [op |-> "none", key |-> <<>>, data |-> <<>>, res |-> Ok(<<>>), pre |-> EmptyFs]

StoreInit ==
    /\ opts \in {StoreOpts(<<"test_store">>, t) : t \in TransformNames}
    /\ store = EmptyFs
    /\ last = NoOp
    /\ NetInit

Write(key, bytes) ==
    LET r == write_stream(opts, store, key, bytes)
    IN  /\ store' = r.fs
        /\ last' = [op |-> "write", key |-> key, data |-> bytes, res |-> r.res, pre |-> store]
        /\ UNCHANGED opts
        /\ UNCHANGED <<netVars, rd, bc, td, refused>>

Read(key) ==
    /\ last' = [op |-> "read", key |-> key, data |-> <<>>,
                res |-> read(opts, store, key), pre |-> store]
    /\ UNCHANGED <<opts, store>>
    /\ UNCHANGED <<netVars, rd, bc, td, refused>>

Delete(key) ==
    LET r == delete(opts, store, key)
    IN  /\ store' = r.fs
        /\ last' = [op |-> "delete", key |-> key, data |-> <<>>, res |-> r.res, pre |-> store]
        /\ UNCHANGED opts
        /\ UNCHANGED <<netVars, rd, bc, td, refused>>

Clear ==
    LET r == clear(opts, store)
    IN  /\ store' = r.fs
        /\ last' = [op |-> "clear", key |-> <<>>, data |-> <<>>, res |-> r.res, pre |-> store]
        /\ UNCHANGED opts
        /\ UNCHANGED <<netVars, rd, bc, td, refused>>

StoreNext ==
    \/ \E k \in Keys, b \in Blobs : Write(k, b)
    \/ \E k \in Keys : Read(k)
    \/ \E k \in Keys : Delete(k)
    \/ Clear

StoreSpec == StoreInit /\ [][StoreNext]_vars

(***************************************************************************)
(* Properties of the store (checked under StoreSpec).                      *)
(***************************************************************************)
Stored(fs, key) == fullpath(opts, key) \in DOMAIN fs.files

Wrote == last.op = "write" /\ last.res.ok

\* C6 (store round-trip): in every state that a successful write(k, b)
\* leaves, whatever operations came before it, read(k) returns Ok(b).
C6_StoreRoundTrip ==
    Wrote => read(opts, store, last.key) = Ok(last.data)

\* a non-empty blob was written into a store that already held files
C6_Witness ==
    /\ Wrote
    /\ last.data # <<>>
    /\ DOMAIN last.pre.files # {}

\* C7 (last-writer-wins): a successful write(k, b2) onto a path that already
\* held a blob b1 leaves b2, and nothing of b1, as the result of read for k
\* and for every key whose transformed path equals k's.
C7_LastWriterWins ==
    (Wrote /\ Stored(last.pre, last.key)) =>
        \A k \in Keys :
            fullpath(opts, k) = fullpath(opts, last.key) =>
                read(opts, store, k) = Ok(last.data)

\* a shorter, non-empty blob replaced a longer one written under another
\* key with the same transformed path
C7_Witness ==
    /\ Wrote
    /\ Stored(last.pre, last.key)
    /\ last.data # <<>>
    /\ Len(last.data) < Len(OldContent(last.pre, fullpath(opts, last.key)))
    /\ \E k \in Keys \ {last.key} : fullpath(opts, k) = fullpath(opts, last.key)

\* C8 (absent-key errors): read(k) and delete(k) of a key with no stored
\* blob fail with NotFound and leave the filesystem as they found it.
C8_AbsentKeyErrors ==
    (last.op \in {"read", "delete"} /\ ~Stored(last.pre, last.key)) =>
        /\ last.res = Err("NotFound")
        /\ store = last.pre

\* a delete of an absent key in a store that holds other blobs
C8_Witness ==
    /\ last.op = "delete"
    /\ ~Stored(last.pre, last.key)
    /\ DOMAIN last.pre.files # {}

\* C9 (delete): delete(k) of a stored key succeeds, read(k) then fails with
\* NotFound, and every key whose transformed path differs reads as before.
C9_DeleteRemoves ==
    (last.op = "delete" /\ Stored(last.pre, last.key)) =>
        /\ last.res = Ok(<<>>)
        /\ read(opts, store, last.key) = Err("NotFound")
        /\ \A k \in Keys :
              fullpath(opts, k) # fullpath(opts, last.key) =>
                  read(opts, store, k) = read(opts, last.pre, k)

\* a stored key was deleted while another key's blob stayed
C9_Witness ==
    /\ last.op = "delete"
    /\ Stored(last.pre, last.key)
    /\ \E k \in Keys : Stored(store, k)

\* C10 (clear): clear() on an existing root directory succeeds and leaves
\* every key NotFound; clear() on an absent root directory returns an error
\* and changes nothing; a write that finds no root directory recreates it
\* and its blob is readable.
C10_Clear ==
    /\ (last.op = "clear" /\ opts.root_dir \in last.pre.dirs) =>
            /\ last.res.ok
            /\ \A k \in Keys : read(opts, store, k) = Err("NotFound")
    /\ (last.op = "clear" /\ opts.root_dir \notin last.pre.dirs) =>
            /\ ~last.res.ok
            /\ store = last.pre
    /\ (Wrote /\ opts.root_dir \notin last.pre.dirs) =>
            /\ opts.root_dir \in store.dirs
            /\ read(opts, store, last.key) = Ok(last.data)

\* a clear that removed stored blobs
C10_Witness ==
    /\ last.op = "clear"
    /\ last.res.ok
    /\ DOMAIN last.pre.files # {}

OnPeerHeld(n) == \E e \in EndpointsAt(n) : hpc[e] = "reading"

\* the on_peer mutex of n is poisoned: a thread panicked holding its guard
OnPeerPoisoned(n) == \E e \in EndpointsAt(n) : hpc[e] = "panicked_locked"

\* the mutex of FileServer::peers is held by broadcast / poisoned by its panic
MirrorHeld(n) == pub[n].pc = "broadcast"

MirrorPoisoned(n) == pub[n].pc = "panicked"

\* the remote socket of endpoint e is closed: the remote process has gone, or
\* its handle_conn closed the peer
RemoteGone(e) == ~alive[Owner(Other(e))] \/ hpc[Other(e)] = "closed"

\* HashMap::insert keyed by the peer's address
InsertPeer(map, e) == {x \in map : RemoteAddr(x) # RemoteAddr(e)} \cup {e}

\* FileServer::start: listen_and_accept, bootstrap_network, then run
Start(n) ==
    /\ alive[n]
    /\ run_pc[n] = "new"
    /\ run_pc' = [run_pc EXCEPT ![n] = "check"]
    /\ hpc' = [e \in EPs |-> IF e = <<n, "out">> /\ n \in Conns THEN "dialing" ELSE hpc[e]]
    /\ UNCHANGED <<alive, shutdown_chan, peers, mirror, wire, queue, pub, disk, published,
                   delivered, sent, handled, calledLooping, eofSeen, nShutdown, nKill>>
    /\ UNCHANGED <<storeVars, rd, bc, td, refused>>

\* TcpTransport::dial in the thread bootstrap_network spawned
Dial(c) ==
    /\ alive[c]
    /\ hpc[<<c, "out">>] = "dialing"
    /\ IF alive[Target(c)]
       THEN hpc' = [hpc EXCEPT ![<<c, "out">>] = "start", ![<<c, "in">>] = "backlog"]
       ELSE hpc' = [hpc EXCEPT ![<<c, "out">>] = "dead"]
    /\ UNCHANGED <<alive, run_pc, shutdown_chan, peers, mirror, wire, queue, pub, disk,
                   published, delivered, sent, handled, calledLooping, eofSeen,
                   nShutdown, nKill>>
    /\ UNCHANGED <<storeVars, rd, bc, td, refused>>

\* TcpTransport::start_accept: a thread per incoming stream
Accept(e) ==
    /\ alive[Owner(e)]
    /\ run_pc[Owner(e)] # "new"
    /\ hpc[e] = "backlog"
    /\ hpc' = [hpc EXCEPT ![e] = "start"]
    /\ UNCHANGED <<alive, run_pc, shutdown_chan, peers, mirror, wire, queue, pub, disk,
                   published, delivered, sent, handled, calledLooping, eofSeen,
                   nShutdown, nKill>>
    /\ UNCHANGED <<storeVars, rd, bc, td, refused>>

\* handle_conn up to its reader loop: no handshake is configured; the guard
\* of self.on_peer is taken (and kept), the callback of register_on_peer_cb
\* puts the peer into FileServer::peers and returns true, and the peer is put
\* into TcpTransport::peers.  Both locks panic when poisoned.
Admit(e) ==
    /\ alive[Owner(e)]
    /\ hpc[e] = "start"
    /\ ~OnPeerHeld(Owner(e))
    /\ OnPeerPoisoned(Owner(e)) \/ ~MirrorHeld(Owner(e))
    /\ IF OnPeerPoisoned(Owner(e))
       THEN /\ hpc' = [hpc EXCEPT ![e] = "dead"]
            /\ UNCHANGED <<mirror, peers>>
       ELSE IF MirrorPoisoned(Owner(e))
       THEN /\ hpc' = [hpc EXCEPT ![e] = "panicked_locked"]
            /\ UNCHANGED <<mirror, peers>>
       ELSE /\ hpc' = [hpc EXCEPT ![e] = "reading"]
            /\ mirror' = [mirror EXCEPT ![Owner(e)] = InsertPeer(@, e)]
            /\ peers' = [peers EXCEPT ![Owner(e)] = InsertPeer(@, e)]
    /\ UNCHANGED <<alive, run_pc, shutdown_chan, wire, queue, pub, disk,
                   published, delivered, sent, handled, calledLooping, eofSeen,
                   nShutdown, nKill>>
    /\ UNCHANGED <<storeVars, rd, bc, td, refused>>

\* HashMap::remove keyed by the peer's address
RemovePeer(map, e) == {x \in map : RemoteAddr(x) # RemoteAddr(e)}

\* (mutant) the Err arm of the handshake without its return: handle_conn goes
\* on to the callback, the registry and the reader loop
HandshakeFailNoReturn(e) ==
    /\ alive[Owner(e)]
    /\ hpc[e] = "start"
    /\ ~OnPeerHeld(Owner(e))
    /\ ~OnPeerPoisoned(Owner(e))
    /\ hpc' = [hpc EXCEPT ![e] = "reading"]
    /\ refused' = [refused EXCEPT ![e] = "handshake"]
    /\ mirror' = [mirror EXCEPT ![Owner(e)] = InsertPeer(@, e)]
    /\ peers' = [peers EXCEPT ![Owner(e)] = InsertPeer(@, e)]
    /\ UNCHANGED <<alive, run_pc, shutdown_chan, wire, queue, pub, disk,
                   published, delivered, sent, handled, calledLooping, eofSeen,
                   nShutdown, nKill>>
    /\ UNCHANGED <<storeVars, rd, bc, td>>

\* handle_conn on a transport whose opts.shakehands is Some and returns Err
\* for this peer: the peer is closed and handle_conn returns, before the
\* guard of on_peer is asked for
HandshakeFail(e) ==
    /\ alive[Owner(e)]
    /\ hpc[e] = "start"
    /\ hpc' = [hpc EXCEPT ![e] = "closed"]
    /\ refused' = [refused EXCEPT ![e] = "handshake"]
    /\ UNCHANGED <<alive, run_pc, shutdown_chan, peers, mirror, wire, queue, pub, disk,
                   published, delivered, sent, handled, calledLooping, eofSeen,
                   nShutdown, nKill>>
    /\ UNCHANGED <<storeVars, rd, bc, td>>

\* (mutant) the false arm of the callback without its return: the peer is
\* put back into the registry and the reader loop starts
AdmitRejectNoReturn(e, closeOk) ==
    /\ alive[Owner(e)]
    /\ hpc[e] = "start"
    /\ ~OnPeerHeld(Owner(e))
    /\ ~OnPeerPoisoned(Owner(e))
    /\ closeOk
    /\ hpc' = [hpc EXCEPT ![e] = "reading"]
    /\ refused' = [refused EXCEPT ![e] = "callback"]
    /\ peers' = [peers EXCEPT ![Owner(e)] = InsertPeer(@, e)]
    /\ UNCHANGED <<alive, run_pc, shutdown_chan, mirror, wire, queue, pub, disk,
                   published, delivered, sent, handled, calledLooping, eofSeen,
                   nShutdown, nKill>>
    /\ UNCHANGED <<storeVars, rd, bc, td>>

\* handle_conn with a callback that returns false for this peer: the guard
\* of on_peer is taken, the address is removed from TcpTransport::peers, the
\* peer is closed and handle_conn returns, which frees the guard.  When the
\* remote socket is closed already the shutdown of close() may fail: its
\* unwrap panics with the guard held (closeOk = FALSE)
AdmitReject(e, closeOk) ==
    /\ alive[Owner(e)]
    /\ hpc[e] = "start"
    /\ ~OnPeerHeld(Owner(e))
    /\ ~OnPeerPoisoned(Owner(e))
    /\ closeOk \/ RemoteGone(e)
    /\ hpc' = [hpc EXCEPT ![e] = IF closeOk THEN "closed" ELSE "panicked_locked"]
    /\ refused' = [refused EXCEPT ![e] = "callback"]
    /\ peers' = [peers EXCEPT ![Owner(e)] = RemovePeer(@, e)]
    /\ UNCHANGED <<alive, run_pc, shutdown_chan, mirror, wire, queue, pub, disk,
                   published, delivered, sent, handled, calledLooping, eofSeen,
                   nShutdown, nKill>>
    /\ UNCHANGED <<storeVars, rd, bc, td>>

\* how many bytes the socket has ready when the reader's read is served: the
\* model takes the two extremes, one byte or all that has arrived
ReadyChoices(avail) == IF avail = <<>> THEN {} ELSE {1, Len(avail)}

\* Message::new(peer_addr) with the payload the decoder set
\* (mutant) a Message stamped with the port the remote listens on
MessageFromListener(from, payload) == [from |-> from % 50000, payload |-> payload]

\* Message::new(peer_addr) with the payload decode gave it
Message(from, payload) == [from |-> from, payload |-> payload]

\* (mutant) a channel that hands out the newest message first
EnqueueFront(q, msg) == <<msg>> \o q

\* Sender::send on msg_chan
Enqueue(q, msg) == Append(q, msg)

\* the reader loop of handle_conn, one turn: DefaultDecoder::decode, then
\* sender.send(msg); with bytes waiting the first read returns some of them
ReaderDecode(e, ready) ==
    /\ alive[Owner(e)]
    /\ hpc[e] = "reading"
    /\ wire[e] # <<>>
    /\ Len(queue[Owner(e)]) < MaxQueue
    /\ LET r == read_all_from_stream(wire[e], ready)
       IN  /\ wire' = [wire EXCEPT ![e] = r.rest]
           /\ queue' = [queue EXCEPT ![Owner(e)] =
                            Enqueue(@, Message(RemoteAddr(e), r.result))]
    /\ UNCHANGED <<alive, run_pc, shutdown_chan, hpc, peers, mirror, pub, disk,
                   published, delivered, sent, handled, calledLooping, eofSeen,
                   nShutdown, nKill>>
    /\ UNCHANGED <<storeVars, rd, bc, td, refused>>

\* the same turn at EOF: the read returns 0, decode returns Ok with an empty
\* payload, the message is sent and the loop goes on
ReaderEof(e) ==
    /\ alive[Owner(e)]
    /\ hpc[e] = "reading"
    /\ wire[e] = <<>>
    /\ RemoteGone(e)
    /\ Len(queue[Owner(e)]) < MaxQueue
    /\ LET r == read_all_from_stream(<<>>, 0)
       IN  queue' = [queue EXCEPT ![Owner(e)] =
                        Enqueue(@, Message(RemoteAddr(e), r.result))]
    /\ eofSeen' = [eofSeen EXCEPT ![e] = TRUE]
    /\ UNCHANGED <<alive, run_pc, shutdown_chan, hpc, peers, mirror, wire, pub, disk,
                   published, delivered, sent, handled, calledLooping, nShutdown, nKill>>
    /\ UNCHANGED <<storeVars, rd, bc, td, refused>>

\* the same turn when the read fails (the connection was reset: the remote
\* process went away leaving bytes it was sent unread): read_all_from_stream
\* returns the error, decode unwraps it and the thread panics with the guard
\* of on_peer in its hands; the registry is left as it is
ReaderReset(e) ==
    /\ alive[Owner(e)]
    /\ hpc[e] = "reading"
    /\ RemoteGone(e)
    /\ wire[Other(e)] # <<>>
    /\ hpc' = [hpc EXCEPT ![e] = "panicked_locked"]
    /\ UNCHANGED <<alive, run_pc, shutdown_chan, peers, mirror, wire, queue, pub, disk,
                   published, delivered, sent, handled, calledLooping, eofSeen,
                   nShutdown, nKill>>
    /\ UNCHANGED <<storeVars, rd, bc, td, refused>>

\* run: the try_recv on shutdown_chan at the top of the loop; close() does nothing
RunCheck(n) ==
    /\ alive[n]
    /\ run_pc[n] = "check"
    /\ IF shutdown_chan[n] > 0
       THEN /\ shutdown_chan' = [shutdown_chan EXCEPT ![n] = @ - 1]
            /\ run_pc' = [run_pc EXCEPT ![n] = "returned"]
       ELSE /\ run_pc' = [run_pc EXCEPT ![n] = "consume"]
            /\ UNCHANGED shutdown_chan
    /\ UNCHANGED <<alive, hpc, peers, mirror, wire, queue, pub, disk, published,
                   delivered, sent, handled, calledLooping, eofSeen, nShutdown, nKill>>
    /\ UNCHANGED <<storeVars, rd, bc, td, refused>>

\* handle_message: both from_buffer calls and store.write are unwrapped
handle_message(n, msg) ==
    LET payload == Payload_deserialize(msg.payload)
        msg_data == IF payload.ok THEN MessageData_deserialize(payload.msg) ELSE BadBuffer
        w == IF msg_data.ok
             THEN write_stream(NodeStoreOpts(n), disk[n], msg_data.key, msg_data.data)
             ELSE [fs |-> disk[n], res |-> Err("panic")]
    IN  [ok |-> msg_data.ok /\ w.res.ok,
         fs |-> w.fs,
         note |-> IF msg_data.ok
                  THEN {[to |-> n, from |-> payload.from, key |-> msg_data.key,
                         data |-> msg_data.data]}
                  ELSE {}]

\* the endpoint at n whose peer address is addr
EndpointOf(n, addr) == CHOOSE e \in EndpointsAt(n) : RemoteAddr(e) = addr

\* run: consume() returns a message and handle_message is called on it
RunConsume(n) ==
    /\ alive[n]
    /\ run_pc[n] = "consume"
    /\ queue[n] # <<>>
    /\ LET msg == Head(queue[n])
           h == handle_message(n, msg)
       IN  /\ queue' = [queue EXCEPT ![n] = Tail(@)]
           /\ handled' = [handled EXCEPT ![EndpointOf(n, msg.from)] = Append(@, msg.payload)]
           /\ disk' = [disk EXCEPT ![n] = h.fs]
           /\ delivered' = IF h.ok THEN delivered \cup h.note ELSE delivered
           /\ run_pc' = [run_pc EXCEPT ![n] = IF h.ok THEN "check" ELSE "panicked"]
    /\ UNCHANGED <<alive, shutdown_chan, hpc, peers, mirror, wire, pub, published,
                   sent, calledLooping, eofSeen, nShutdown, nKill>>
    /\ UNCHANGED <<storeVars, rd, bc, td, refused>>

\* run: consume() times out on the empty channel and the loop comes round to
\* its try_recv; the turn leaves the state as it is unless a signal waits
RunTimeout(n) ==
    /\ alive[n]
    /\ run_pc[n] = "consume"
    /\ queue[n] = <<>>
    /\ shutdown_chan[n] > 0
    /\ shutdown_chan' = [shutdown_chan EXCEPT ![n] = @ - 1]
    /\ run_pc' = [run_pc EXCEPT ![n] = "returned"]
    /\ UNCHANGED <<alive, hpc, peers, mirror, wire, queue, pub, disk, published,
                   delivered, sent, handled, calledLooping, eofSeen, nShutdown, nKill>>
    /\ UNCHANGED <<storeVars, rd, bc, td, refused>>

\* FileServer::shutdown: send(true) on shutdown_chan
Shutdown(n) ==
    /\ alive[n]
    /\ nShutdown < MaxShutdown
    /\ nShutdown' = nShutdown + 1
    /\ shutdown_chan' = [shutdown_chan EXCEPT ![n] = @ + 1]
    /\ calledLooping' = [calledLooping EXCEPT ![n] = @ \/ run_pc[n] \in {"check", "consume"}]
    /\ UNCHANGED <<alive, run_pc, hpc, peers, mirror, wire, queue, pub, disk, published,
                   delivered, sent, handled, eofSeen, nKill>>
    /\ UNCHANGED <<storeVars, rd, bc, td, refused>>

\* what one r.read(&mut buf) of store_data gets from a slice reader
FirstRead(content) == SubSeq(content, 1, Min(Len(content), StoreDataBufLen))

\* FileServer::store_data up to the lock of self.peers in broadcast
StoreData(n, key, content) ==
    /\ alive[n]
    /\ pub[n].pc \in {"idle", "panicked"}
    /\ Cardinality(published) < MaxPublish
    /\ LET buf == FirstRead(content)
           w == write_stream(NodeStoreOpts(n), disk[n], key, buf)
           payload_buffer == Payload_to_buffer(<<ListenAddr(n)>>, MessageType_Store,
                                               MessageData_to_buffer(key, buf))
       IN  /\ disk' = [disk EXCEPT ![n] = w.fs]
           /\ published' = published \cup
                  {[id |-> Cardinality(published) + 1, node |-> n, key |-> key,
                    content |-> content, stored |-> buf, peers |-> mirror[n]]}
           /\ pub' = [pub EXCEPT ![n] =
                  IF ~w.res.ok THEN Idle
                  ELSE IF MirrorPoisoned(n) THEN @
                  ELSE IF mirror[n] = {} THEN Idle
                  ELSE [pc |-> "broadcast", buf |-> payload_buffer, todo |-> mirror[n]]]
    /\ UNCHANGED <<alive, run_pc, shutdown_chan, hpc, peers, mirror, wire, queue,
                   delivered, sent, handled, calledLooping, eofSeen, nShutdown, nKill>>
    /\ UNCHANGED <<storeVars, rd, bc, td, refused>>

\* broadcast after the send to e: it returns (dropping the guard of
\* self.peers) when e was the last peer of the map
AfterSend(p, e) == IF p.todo = {e} THEN Idle ELSE [p EXCEPT !.todo = @ \ {e}]

\* broadcast: p.send(&payload_buffer).unwrap() for one peer of the map; a
\* write to a socket whose remote process has gone is lost or fails
BroadcastSend(n, e, sendOk) ==
    /\ alive[n]
    /\ pub[n].pc = "broadcast"
    /\ e \in pub[n].todo
    /\ IF ~RemoteGone(e)
       THEN /\ sendOk
            /\ wire' = [wire EXCEPT ![Other(e)] = @ \o pub[n].buf]
            /\ sent' = [sent EXCEPT ![Other(e)] = @ \o pub[n].buf]
            /\ pub' = [pub EXCEPT ![n] = AfterSend(@, e)]
       ELSE /\ UNCHANGED <<wire, sent>>
            /\ pub' = [pub EXCEPT ![n] =
                   IF sendOk THEN AfterSend(@, e)
                   ELSE [pc |-> "panicked", buf |-> <<>>, todo |-> {}]]
    /\ UNCHANGED <<alive, run_pc, shutdown_chan, hpc, peers, mirror, queue, disk,
                   published, delivered, handled, calledLooping, eofSeen, nShutdown, nKill>>
    /\ UNCHANGED <<storeVars, rd, bc, td, refused>>

\* the process of node n is killed: its threads stop, its sockets close
Kill(n) ==
    /\ alive[n]
    /\ nKill < MaxKill
    /\ alive' = [alive EXCEPT ![n] = FALSE]
    /\ nKill' = nKill + 1
    /\ UNCHANGED <<run_pc, shutdown_chan, hpc, peers, mirror, wire, queue, pub, disk,
                   published, delivered, sent, handled, calledLooping, eofSeen, nShutdown>>
    /\ UNCHANGED <<storeVars, rd, bc, td, refused>>

Init ==
    /\ opts = StoreOpts(<<"test_store">>, "identity")
    /\ store = EmptyFs
    /\ last = NoOp
    /\ NetInit

\* publishing between the three nodes (scenarios "single-peer publish" and
\* "three-node fanout")
Next ==
    \/ \E n \in Nodes : Start(n)
    \/ \E c \in Conns : Dial(c)
    \/ \E e \in EPs : Accept(e)
    \/ \E e \in EPs : Admit(e)
    \/ \E e \in EPs : \E ready \in ReadyChoices(wire[e]) : ReaderDecode(e, ready)
    \/ \E n \in Nodes : RunCheck(n)
    \/ \E n \in Nodes : RunConsume(n)
    \/ \E n \in Publishers, k \in NetKeys, b \in NetBlobs : StoreData(n, k, b)
    \/ \E n \in Nodes, e \in EPs : BroadcastSend(n, e, TRUE)

Spec == Init /\ [][Next]_vars

\* the same with calls of shutdown() (scenario "shutdown latency")
ShutdownNext ==
    \/ Next
    \/ \E n \in Nodes : RunTimeout(n)
    \/ \E n \in Stoppable : Shutdown(n)

ShutdownSpec == Init /\ [][ShutdownNext]_vars

\* the same with a process that is killed (scenario "peer churn")
ChurnNext ==
    \/ Next
    \/ \E e \in EPs : ReaderEof(e)
    \/ \E e \in EPs : ReaderReset(e)
    \/ \E n \in Survivors, k \in NetKeys, b \in NetBlobs : StoreData(n, k, b)
    \/ \E n \in Nodes, e \in EPs : BroadcastSend(n, e, FALSE)
    \/ \E n \in Killable : Kill(n)

ChurnSpec == Init /\ [][ChurnNext]_vars

(***************************************************************************)
(* lib.rs: read_all_from_stream, and DefaultDecoder::decode on top of it,  *)
(* called on a stream of their own.                                        *)
(***************************************************************************)

\* the longest stream content
MaxStreamLen == 10

StreamContents == {Alt(b, n) : b \in 1..2, n \in 0..MaxStreamLen}

\* read_all_from_stream(r) is called on a stream that delivers content
ReadCall(content) ==
    /\ rd.pc = "idle"
    /\ rd' = [rd EXCEPT !.pc = "reading", !.content = content]
    /\ UNCHANGED <<storeVars, netVars, bc, td, refused>>

\* the call returns: the first read found ready bytes waiting (a read of a
\* stream that is not at EOF returns at least one byte)
ReadReturn(ready) ==
    /\ rd.pc = "reading"
    /\ ready = 0 => rd.content = <<>>
    /\ ready <= Len(rd.content)
    /\ rd' = [rd EXCEPT !.pc = "returned", !.ready = ready,
                        !.res = Ok(read_all_from_stream(rd.content, ready).result)]
    /\ UNCHANGED <<storeVars, netVars, bc, td, refused>>

ReadNext ==
    \/ \E content \in StreamContents : ReadCall(content)
    \/ \E ready \in 0..MaxStreamLen : ReadReturn(ready)

ReadSpec == Init /\ [][ReadNext]_vars

(***************************************************************************)
(* server/mod.rs: broadcast called by two threads of node B at once, with  *)
(* the connection to A in B's mirror.                                      *)
(***************************************************************************)

\* (mutant) a lock that lets everyone in
LockFreeAlways(l) == TRUE

\* Mutex::lock gets the lock when no thread holds it
LockFree(l) == l = "free"

\* the lock l when thread t lets go of it
Unlock(l, t) == IF l = t THEN "free" ELSE l

\* how many bytes one write of write_all takes: one, or all that is left
WriteChoices(left) == IF left = 0 THEN {} ELSE {1, left}

\* store_data(key, content) is called in thread t: the payload is built and
\* broadcast is entered
BroadcastCall(t, key, content) ==
    /\ bc.pc[t] = "idle"
    /\ bc' = [bc EXCEPT !.pc[t] = "lock_peers",
                        !.buf[t] = Payload_to_buffer(<<ListenAddr("B")>>, MessageType_Store,
                                       MessageData_to_buffer(key, FirstRead(content)))]
    /\ UNCHANGED <<storeVars, netVars, rd, td, refused>>

\* broadcast: self.peers.lock().unwrap()
BroadcastLockPeers(t) ==
    /\ bc.pc[t] = "lock_peers"
    /\ IF bc.peersLock = "poisoned"
       THEN bc' = [bc EXCEPT !.pc[t] = "panicked"]
       ELSE /\ LockFree(bc.peersLock)
            /\ bc' = [bc EXCEPT !.pc[t] = "lock_peer", !.peersLock = t]
    /\ UNCHANGED <<storeVars, netVars, rd, td, refused>>

\* broadcast: peer.lock().unwrap() inside the loop over the map
BroadcastLockPeer(t) ==
    /\ bc.pc[t] = "lock_peer"
    /\ IF bc.peerLock = "poisoned"
       THEN bc' = [bc EXCEPT !.pc[t] = "panicked",
                            !.peersLock = IF @ = t THEN "poisoned" ELSE @]
       ELSE /\ LockFree(bc.peerLock)
            /\ bc' = [bc EXCEPT !.pc[t] = "send", !.peerLock = t]
    /\ UNCHANGED <<storeVars, netVars, rd, td, refused>>

\* TcpPeer::send: one write of the write_all on the connection
SendWrite(t, n) ==
    /\ bc.pc[t] = "send"
    /\ n <= Len(bc.buf[t]) - bc.written[t]
    /\ bc' = [bc EXCEPT !.written[t] = @ + n,
                        !.conn = @ \o [i \in 1..n |->
                                     [by |-> t, byte |-> bc.buf[t][bc.written[t] + i]]]]
    /\ UNCHANGED <<storeVars, netVars, rd, td, refused>>

\* TcpPeer::send: a write fails, the unwrap in broadcast panics and the two
\* guards the thread holds are poisoned
SendFail(t) ==
    /\ bc.pc[t] = "send"
    /\ bc.written[t] < Len(bc.buf[t])
    /\ bc' = [bc EXCEPT !.pc[t] = "panicked",
                        !.peersLock = IF @ = t THEN "poisoned" ELSE @,
                        !.peerLock = IF @ = t THEN "poisoned" ELSE @]
    /\ UNCHANGED <<storeVars, netVars, rd, td, refused>>

\* write_all has written the whole buffer: send returns, the guard of the
\* peer is dropped, the loop is over and broadcast returns, dropping the
\* guard of self.peers
BroadcastReturn(t) ==
    /\ bc.pc[t] = "send"
    /\ bc.written[t] = Len(bc.buf[t])
    /\ bc' = [bc EXCEPT !.pc[t] = "done",
                        !.peersLock = Unlock(@, t),
                        !.peerLock = Unlock(@, t)]
    /\ UNCHANGED <<storeVars, netVars, rd, td, refused>>

SendNext ==
    \/ \E t \in Threads, k \in NetKeys, b \in NetBlobs : BroadcastCall(t, k, b)
    \/ \E t \in Threads : BroadcastLockPeers(t)
    \/ \E t \in Threads : BroadcastLockPeer(t)
    \/ \E t \in Threads : \E n \in WriteChoices(Len(bc.buf[t]) - bc.written[t]) :
           SendWrite(t, n)
    \/ \E t \in Threads : SendFail(t)
    \/ \E t \in Threads : BroadcastReturn(t)

SendSpec == Init /\ [][SendNext]_vars

\* the same on transports that turn peers away: a handshake that fails, a
\* callback that returns false (scenario "admission").  What the reader at
\* the other end of a closed connection does is left to the peer churn
\* scenario; a send to a closed connection is lost here
GateNext ==
    \/ Next
    \/ \E e \in EPs : HandshakeFail(e)
    \/ \E e \in EPs, closeOk \in BOOLEAN : AdmitReject(e, closeOk)

GateSpec == Init /\ [][GateNext]_vars

(***************************************************************************)
(* transport/tcp.rs: try_dial, called on a transport of its own.           *)
(***************************************************************************)
\* the largest max_attemps handed to try_dial
MaxAttempts == 3

\* attempts and max_attemps are u8
U8 == 256

\* the errors of a failed TcpStream::connect
DialErrors == {"ConnectionRefused", "TimedOut"}

\* try_dial(addr, n) is called: backoff is one second, attempts is 0
TryDialCall(n) ==
    /\ td.pc = "idle"
    /\ td' = [NoTryDial EXCEPT !.pc = "dial", !.max_attemps = n, !.backoff = 1]
    /\ UNCHANGED <<storeVars, rd, bc, netVars, refused>>

\* self.dial(addr): the connect succeeds and dial is inside handle_conn
TryDialConnect ==
    /\ td.pc = "dial"
    /\ td' = [td EXCEPT !.pc = "handle_conn", !.dials = Append(@, "Ok")]
    /\ UNCHANGED <<storeVars, rd, bc, netVars, refused>>

\* handle_conn returns (the admission callback rejected the peer), dial
\* returns Ok and so does try_dial
TryDialReturnOk ==
    /\ td.pc = "handle_conn"
    /\ td' = [td EXCEPT !.pc = "returned", !.res = Ok(<<>>)]
    /\ UNCHANGED <<storeVars, rd, bc, netVars, refused>>

\* self.dial(addr) fails with err: the Err arm of the loop
TryDialFail(err) ==
    /\ td.pc = "dial"
    /\ IF td.attempts >= td.max_attemps
       THEN td' = [td EXCEPT !.pc = "returned", !.dials = Append(@, err),
                             !.res = Err(err)]
       ELSE td' = [td EXCEPT !.dials = Append(@, err),
                             !.attempts = (@ + 1) % U8,
                             !.slept = Append(@, td.backoff),
                             !.backoff = @ * 2]
    /\ UNCHANGED <<storeVars, rd, bc, netVars, refused>>

TryDialNext ==
    \/ \E n \in 0..MaxAttempts : TryDialCall(n)
    \/ TryDialConnect
    \/ TryDialReturnOk
    \/ \E err \in DialErrors : TryDialFail(err)

TryDialSpec == Init /\ [][TryDialNext]_vars

\* C12 (try_dial): a call with max_attemps = n >= 1 dials at most n times;
\* when it has returned it has dialed at least once, returned Ok exactly if
\* its last dial succeeded and otherwise the error of its last dial; the
\* sleeps between consecutive dials are 1, 2, 4, ... seconds.
C12_TryDial ==
    (td.pc # "idle" /\ td.max_attemps >= 1) =>
        /\ Len(td.dials) <= td.max_attemps
        /\ \A i \in 1..Len(td.slept) : td.slept[i] = 2 ^ (i - 1)
        /\ td.pc = "returned" =>
              /\ Len(td.dials) >= 1
              /\ td.res.ok <=> td.dials[Len(td.dials)] = "Ok"
              /\ ~td.res.ok => td.res.err = td.dials[Len(td.dials)]
              /\ Len(td.slept) = Len(td.dials) - 1

(***************************************************************************)
(* Properties of the network.                                              *)
(***************************************************************************)
RECURSIVE Concat(_)
Concat(ss) == IF ss = <<>> THEN <<>> ELSE Head(ss) \o Concat(Tail(ss))

\* the payloads of the messages from addr waiting in channel q, in its order
RECURSIVE QueuedFrom(_, _)
QueuedFrom(q, addr) ==
    IF q = <<>> THEN <<>>
    ELSE (IF Head(q).from = addr THEN <<Head(q).payload>> ELSE <<>>)
             \o QueuedFrom(Tail(q), addr)

\* what node n's store returns for key
Holds(n, key) == read(NodeStoreOpts(n), disk[n], key)

\* nothing is in flight: no broadcast runs, no byte waits in a socket, no
\* message waits in a channel, and every dialed connection is set up
Quiescent ==
    /\ \A n \in Nodes : pub[n].pc # "broadcast" /\ queue[n] = <<>>
    /\ \A e \in EPs : wire[e] = <<>>
    /\ \A c \in Conns : hpc[<<c, "out">>] = "reading"

\* C1 (single-peer publish): once store_data(k, b) has returned at B, called
\* with A in B's peer mirror, B's store holds b under k; A's run loop does
\* not die on what B sent, and once nothing is in flight A's store holds
\* exactly b under k.
C1_SinglePeerPublish ==
    \A p \in published :
        (p.node = "B" /\ p.peers # {} /\ published = {p} /\ pub["B"].pc = "idle") =>
            /\ Holds("B", p.key) = Ok(p.content)
            /\ run_pc["A"] # "panicked"
            /\ Quiescent => Holds("A", p.key) = Ok(p.content)

\* C2 (three-node fanout, as the code has it): a Store message of B is
\* written by A only, under the key and with the bytes B stored; no node
\* passes it on, so C's store gets nothing of what B published.
C2_FanoutReachesOnlyA ==
    \A d \in delivered :
        d.from = <<ListenAddr("B")>> =>
            /\ d.to = "A"
            /\ \E p \in published : p.node = "B" /\ p.key = d.key /\ p.stored = d.data

\* A wrote B's blob while C was connected to A and C's store stayed empty
C2_Witness ==
    /\ \E d \in delivered : d.from = <<ListenAddr("B")>> /\ d.to = "A" /\ d.data # <<>>
    /\ hpc[<<"C", "out">>] = "reading"
    /\ \A p \in published : p.node = "B"
    /\ \A k \in NetKeys : Holds("C", k) = Err("NotFound")
    /\ Quiescent

\* C2 as stated: after B's publish of (k, b), made while connected, both A
\* and C end with b under k (nothing is in flight any more).
C2_FanoutToAll ==
    \A p \in published :
        (p.node = "B" /\ p.peers # {} /\ published = {p} /\ Quiescent) =>
            \A n \in {"A", "C"} : Holds(n, p.key) = Ok(p.content)

\* C3 (per-peer FIFO): for every connection end, the payloads consume() has
\* returned from that peer, followed by the payloads of that peer waiting in
\* the channel and the bytes not yet read, are the bytes sent on the
\* connection in the order they were sent.
C3_PerPeerFifo ==
    \A e \in EPs :
        Concat(handled[e]) \o Concat(QueuedFrom(queue[Owner(e)], RemoteAddr(e))) \o wire[e]
            = sent[e]

\* consume() returned two payloads of one peer, sent by two publishes
C3_Witness ==
    \E e \in EPs :
        /\ Len(handled[e]) >= 2
        /\ handled[e][1] # <<>>
        /\ handled[e][2] # <<>>

\* C4 (shutdown): once shutdown() was called while run() was looping, run()
\* ends in no other way than by returning Ok, whatever is queued or arrives.
C4_ShutdownReturns ==
    \A n \in Nodes : calledLooping[n] => run_pc[n] # "panicked"

\* C5 (eviction on reader exit): the turn of the reader that reads EOF
\* removes the peer from the transport's registry, and a publish on the
\* surviving node does not fail.
C5_EvictionOnReaderExit ==
    \A e \in EPs :
        eofSeen[e] => /\ e \notin peers[Owner(e)]
                      /\ pub[Owner(e)].pc # "panicked"

\* C13 (publish stores and sends the whole content): once store_data(k, r)
\* has returned, the node's store holds the whole content of r under k and
\* every peer of the mirror was sent the Store envelope of k and the whole
\* content, for contents longer than one read of the buffer too.
C13_PublishWholeContent ==
    \A p \in published :
        (published = {p} /\ pub[p.node].pc = "idle") =>
            /\ Holds(p.node, p.key) = Ok(p.content)
            /\ \A e \in p.peers :
                  sent[Other(e)] =
                      Payload_to_buffer(<<ListenAddr(p.node)>>, MessageType_Store,
                                        MessageData_to_buffer(p.key, p.content))

\* C14 (broadcast survives a failing peer): a send that fails on one peer of
\* the mirror does not abort the broadcast: no call of store_data ends in
\* broadcast otherwise than by returning to its caller.
C14_BroadcastNotAborted ==
    \A n \in Nodes : pub[n].pc # "panicked"

\* C15 (malformed payloads are dropped): a consumed message whose payload
\* does not deserialize is dropped and the run loop keeps running: the
\* thread of run() never dies in handle_message.
C15_MalformedDropped ==
    \A n \in Nodes : run_pc[n] # "panicked"

\* C16 (close): once run() has called transport.close() and returned, the
\* transport of the node accepts no new connection.
C16_CloseStopsAccepting ==
    [][\A e \in EPs :
          run_pc[Owner(e)] = "returned" => ~(hpc[e] = "backlog" /\ hpc'[e] = "start")]_vars

\* C17 (registry/reader invariant): every entry of the peer registry of a
\* running node has a live reader on its socket.
C17_RegistryHasReader ==
    \A n \in Nodes : alive[n] => \A e \in peers[n] : hpc[e] = "reading"

\* C18 (readers of distinct peers run concurrently): the admission of an
\* accepted or dialed connection never waits for the reader of another
\* connection of the node: unless a broadcast holds the mirror, it can go on.
C18_AdmissionNeverWaitsForReader ==
    \A e \in EPs :
        (alive[Owner(e)] /\ hpc[e] = "start" /\ ~MirrorHeld(Owner(e))) => ENABLED Admit(e)

\* C19 (broadcast sends outside the mirror lock): broadcast has released
\* the lock of the peer mirror before its first send: no step that sends
\* bytes to a peer is taken with the lock of the sender's mirror held.
C19_SendsOutsideMirrorLock ==
    [][\A e \in EPs : sent'[e] # sent[e] => ~MirrorHeld(Owner(Other(e)))]_vars

\* some Message read from connection end e was put on msg_chan
EnqueuedFrom(e) ==
    handled[e] # <<>> \/ QueuedFrom(queue[Owner(e)], RemoteAddr(e)) # <<>>

\* C21: a peer whose handshake returned an error is closed, is in neither the
\* transport registry nor the node mirror, has no reader, and the callback
\* was not run for it (the callback is what fills the mirror)
C21_HandshakeFailure ==
    \A e \in EPs : refused[e] = "handshake" =>
        /\ hpc[e] = "closed"
        /\ e \notin peers[Owner(e)]
        /\ e \notin mirror[Owner(e)]
        /\ ~EnqueuedFrom(e)

\* a handshake has failed at a node that went on to admit another peer and
\* to receive from it
C21_Witness ==
    \E e \in EPs : \E x \in EPs :
        /\ refused[e] = "handshake"
        /\ Owner(x) = Owner(e)
        /\ x \in peers[Owner(e)]
        /\ handled[x] # <<>>

\* C22: a peer the callback returned false for has its address out of the
\* transport registry, is closed (close() was called on it; where its
\* shutdown failed the socket was closed already), has no reader, and no
\* Message from it is ever enqueued
C22_AdmissionRejection ==
    \A e \in EPs : refused[e] = "callback" =>
        /\ \A x \in peers[Owner(e)] : RemoteAddr(x) # RemoteAddr(e)
        /\ hpc[e] = "closed" \/ (hpc[e] = "panicked_locked" /\ RemoteGone(e))
        /\ hpc[e] # "reading"
        /\ ~EnqueuedFrom(e)

\* a peer was rejected with bytes of its remote waiting on the connection,
\* and the node admitted another peer afterwards
C22_Witness ==
    \E e \in EPs : \E x \in EPs :
        /\ refused[e] = "callback"
        /\ sent[e] # <<>>
        /\ Owner(x) = Owner(e)
        /\ x \in peers[Owner(e)]

\* C23: read_all_from_stream returns all the bytes the stream delivers
\* before EOF, however they are split across the reads and also when they
\* are more than the buffer holds
C23_ReadsAllBytes ==
    rd.pc = "returned" => rd.res = Ok(rd.content)

\* the bytes broadcast hands to send for the publish p
Envelope(p) ==
    Payload_to_buffer(<<ListenAddr(p.node)>>, MessageType_Store,
                      MessageData_to_buffer(p.key, p.stored))

\* the byte strings the remote of e handed to send on that connection
SentFrames(e) ==
    {Envelope(p) : p \in {q \in published : q.node = Owner(Other(e)) /\ Other(e) \in q.peers}}

\* C24: every Message read from a connection has for payload the bytes of
\* one send of the remote, whole: sends are neither split nor merged
C24_Framing ==
    \A e \in EPs :
        /\ \A i \in 1..Len(handled[e]) : handled[e][i] \in SentFrames(e)
        /\ LET q == QueuedFrom(queue[Owner(e)], RemoteAddr(e))
           IN  \A i \in 1..Len(q) : q[i] \in SentFrames(e)

\* how many times the remote of e called send on that connection
SendCount(e) ==
    Cardinality({q \in published : q.node = Owner(Other(e)) /\ Other(e) \in q.peers})

\* how many Messages the reader of e has put on msg_chan
EnqueuedCount(e) ==
    Len(handled[e]) + Len(QueuedFrom(queue[Owner(e)], RemoteAddr(e)))

\* C25: once the reader of a connection has met EOF its loop is over, and a
\* reader never enqueues more Messages than its remote made sends
C25_ReaderTermination ==
    \A e \in EPs :
        /\ eofSeen[e] => hpc[e] # "reading"
        /\ EnqueuedCount(e) <= SendCount(e)

\* the places of the connection's byte sequence that thread t wrote
WrittenAt(t) == {i \in 1..Len(bc.conn) : bc.conn[i].by = t}

\* C26: on the connection the bytes of each of two concurrent publishes are
\* contiguous and in order: the places a thread wrote are an interval, and
\* hold the part of its envelope written so far
C26_SendAtomicity ==
    \A t \in Threads :
        /\ \A i \in WrittenAt(t) : \A j \in WrittenAt(t) :
               \A k \in i..j : k \in WrittenAt(t)
        /\ Cardinality(WrittenAt(t)) = bc.written[t]
        /\ \A i \in WrittenAt(t) :
               bc.conn[i].byte = bc.buf[t][Cardinality({j \in WrittenAt(t) : j <= i})]

\* one publish is in the middle of its write while the other, its envelope
\* built, waits at the lock of self.peers
C26_Witness ==
    \E t \in Threads : \E u \in Threads \ {t} :
        /\ bc.pc[t] = "send"
        /\ 0 < bc.written[t] /\ bc.written[t] < Len(bc.buf[t])
        /\ bc.pc[u] = "lock_peers"
        /\ Len(bc.buf[u]) > 0

\* the envelopes in a byte string put on a connection, one after another
RECURSIVE EnvelopesIn(_)
EnvelopesIn(bytes) ==
    IF bytes = <<>> THEN <<>>
    ELSE LET p == Payload_deserialize(bytes)
         IN  IF ~p.ok THEN <<p>>
             ELSE <<p>> \o EnvelopesIn(SubSeq(bytes, Len(p.from) + Len(p.msg) + 4,
                                               Len(bytes)))

\* C27: every envelope a node has put on a connection carries the node's
\* listen address as from, and a reader that takes bytes off a connection
\* enqueues a Message whose from is the remote address of that connection
C27_FromFields ==
    [][/\ \A e \in EPs : \A i \in 1..Len(EnvelopesIn(sent'[e])) :
              LET p == EnvelopesIn(sent'[e])[i]
              IN  p.ok /\ p.from = <<ListenAddr(Owner(Other(e)))>>
       /\ \A e \in EPs : Len(wire'[e]) < Len(wire[e]) =>
              LET q == queue'[Owner(e)]
              IN  /\ Len(q) = Len(queue[Owner(e)]) + 1
                  /\ q[Len(q)].from = RemoteAddr(e)]_vars

\* a node holds a Message taken off a connection on which two envelopes
\* were put
C27_Witness ==
    \E e \in EPs :
        /\ Len(EnvelopesIn(sent[e])) = 2
        /\ QueuedFrom(queue[Owner(e)], RemoteAddr(e)) # <<>>

====
